---- MODULE Spec2Model ----
(***************************************************************************)
(* A model of qtumjs-eth: the log subscription loop (Contract.onLog and    *)
(* EventListener.onLog), the confirmation poll of TxReceiptPromise, and    *)
(* the methods of Contract that resolve a method name and call or send.    *)
(* Each action is one run of the code between two suspension points        *)
(* (await), which JavaScript executes without interleaving.                *)
(***************************************************************************)
EXTENDS Integers, Sequences, FiniteSets

VARIABLES
    \* ---- the chain, as the node reports it
    head,            \* eth_blockNumber
    chainLogs,       \* the raw logs of the chain, in block order
    nextLogId,       \* identity of the next log mined
    \* ---- one onLog subscription
    pc,              \* where the loop is suspended
    impl,            \* "Contract" or "EventListener"
    fromBlock, toBlock, canceled, latestBlockNum, isFirstFetch, fetchToLatest,
    promiseCancel,   \* EventListener.onLog: promiseCancel holds logPromise.cancel
    optFrom, optTo,  \* opts.fromBlock, opts.toBlock as the caller gave them
    delivered,       \* every call of the consumer fn, in order
    firstRequest,    \* the getLogs request in flight is the first one
    pinnedHead,      \* the head read by the first iteration
    \* ---- the transaction, as the node reports it
    txKnown,         \* getTransaction finds the transaction
    txBlock,         \* the block it was mined in, 0 while it is pending
    txStatus,        \* the status field of its receipt
    reorgs,          \* how many times the head went back
    \* ---- one call of TxReceiptPromise.confirm
    cpc,             \* where confirm is suspended, or how it ended
    confirmArg,      \* the argument confirm, UNDEFINED when left out
    listening,       \* a handler is registered for EVENT_CONFIRM
    receipt,         \* the receipt read by the latest poll
    currentBlockNumber,      \* the head read by the latest poll
    prevConfirmationCounter,
    confirmationCounter,     \* the count computed by the latest poll
    seenCounter,     \* the count computed by the poll before
    fired,           \* the calls of the handler made by the latest poll
    callbacks,       \* all the calls of the handler
    polls,           \* the polls begun after a sleep
    returned,        \* the receipt confirm resolved with
    \* ---- one Contract and the method called on it
    abi,             \* info.abi: the method definitions of the contract
    kpc,             \* where the method called is suspended
    op,              \* the method of Contract called, with its arguments
    methodABI,       \* what methodMap.findMethod answered
    outcome,         \* how the call ended
    requests,        \* the requests the call made to the node, in order
    output,          \* what rpc.call answered
    decodedOutputs,  \* how many values call returned
    nodeReceipt,     \* the receipt the node gave to receipt or confirm
    sendTxReceipt    \* the receipt made of it by _makeSendTxReceipt

logVars == <<head, chainLogs, nextLogId, pc, impl,
             fromBlock, toBlock, canceled, latestBlockNum, isFirstFetch,
             fetchToLatest, promiseCancel, optFrom, optTo, delivered,
             firstRequest, pinnedHead>>

confirmVars == <<txKnown, txBlock, txStatus, reorgs, cpc, confirmArg, listening,
                 receipt, currentBlockNumber, prevConfirmationCounter,
                 confirmationCounter, seenCounter, fired, callbacks, polls,
                 returned>>

callVars == <<abi, kpc, op, methodABI, outcome, requests, output,
              decodedOutputs, nodeReceipt, sendTxReceipt>>

vars == <<logVars, confirmVars, callVars>>

\* ---- bounds of the model
MaxHead == 3
MaxLogs == 2
MaxLogsPerBlock == MaxLogs

\* ---- values of the program
\* the block tag "latest"
LATEST == -1
\* an option the caller left out
UNDEFINED == -2

Topics == {"FooEvent", "BazEvent"}
\* the event definitions the decoder was built from
KnownEvents == {"FooEvent"}

\* getTransactionReceipt found nothing
NullReceipt == [isNull |-> TRUE, blockNumber |-> 0, status |-> "undefined"]

NullEvent == [isNull |-> TRUE, _eventName |-> "null"]

\* ContractLogDecoder.decode: null when the decoder knows no such event
Decode(rawlog) ==
    IF rawlog.topic \in KnownEvents
    THEN [isNull |-> FALSE, _eventName |-> rawlog.topic]
    ELSE NullEvent

\* one entry of getLogs: the raw fields plus the decoded event
MakeEntry(rawlog) ==
    [id |-> rawlog.id, block |-> rawlog.block, topic |-> rawlog.topic,
     event |-> Decode(rawlog)]

\* rpc.getLogs: the raw logs of the blocks from..to that exist now
RpcGetLogs(from, to) ==
    SelectSeq(chainLogs,
              LAMBDA l : l.block >= from /\ (to = LATEST \/ l.block <= to))

\* mutant: the entries that do not decode are left out of the result
GetLogs_DropUndecoded(from, to) ==
    LET result == SelectSeq(RpcGetLogs(from, to),
                            LAMBDA l : ~Decode(l).isNull)
    IN [i \in 1..Len(result) |-> MakeEntry(result[i])]

\* Contract.getLogs / EventListener.getLogs
GetLogs(from, to) ==
    LET result == RpcGetLogs(from, to)
    IN [i \in 1..Len(result) |-> MakeEntry(result[i])]

\* opts.fromBlock || "latest": undefined and 0 are falsy
OrLatest(x) == IF x = UNDEFINED \/ x = 0 THEN LATEST ELSE x

\* typeof x === "number"
IsNumber(x) == x # LATEST

\* a > b of JavaScript: "latest" converts to NaN, and the comparison is false
JsGt(a, b) == IF a = LATEST \/ b = LATEST THEN FALSE ELSE a > b

\* mutant: a symbolic fromBlock replays from the first block
PinFromBlock_Genesis(from, latest) == IF ~IsNumber(from) THEN 0 ELSE from

\* lines 587-589: a symbolic fromBlock is pinned to the head just read
PinFromBlock(from, latest) == IF ~IsNumber(from) THEN latest ELSE from

\* lines 591-593: toBlock follows the head when fetchToLatest
TrackToBlock(to, latest, toLatest) == IF toLatest THEN latest ELSE to

\* line 581: fetchToLatest is computed from fromBlock
FetchToLatest(from) == ~IsNumber(from)

\* the condition of line 595: nothing to fetch, sleep
ShouldSleep(from, to, first) == JsGt(from, to) \/ (~first /\ from = to)

\* the cursor after a fetch, line 614
NextFromBlock(latest) == latest + 1

InitChain ==
    /\ head = 0
    /\ chainLogs = << >>
    /\ nextLogId = 1

InitLog ==
    /\ pc = "idle"
    /\ impl = "Contract"
    /\ fromBlock = LATEST
    /\ toBlock = LATEST
    /\ canceled = FALSE
    /\ latestBlockNum = UNDEFINED
    /\ isFirstFetch = TRUE
    /\ fetchToLatest = TRUE
    /\ promiseCancel = FALSE
    /\ optFrom = UNDEFINED
    /\ optTo = UNDEFINED
    /\ delivered = << >>
    /\ firstRequest = FALSE
    /\ pinnedHead = UNDEFINED

InitConfirm ==
    /\ txKnown = FALSE
    /\ txBlock = 0
    /\ txStatus = "undefined"
    /\ reorgs = 0
    /\ cpc = "idle"
    /\ confirmArg = UNDEFINED
    /\ listening = FALSE
    /\ receipt = NullReceipt
    /\ currentBlockNumber = 0
    /\ prevConfirmationCounter = 0
    /\ confirmationCounter = 0
    /\ seenCounter = 0
    /\ fired = 0
    /\ callbacks = 0
    /\ polls = 0
    /\ returned = NullReceipt

\* findMethod has answered nothing yet
NoDefinition == [name |-> "", inputs |-> << >>, constant |-> FALSE, outputs |-> 0]
NoMethod == [tag |-> "none", def |-> NoDefinition]
NoOp == [name |-> "", method |-> [name |-> "", qualified |-> FALSE, types |-> << >>],
         args |-> << >>]

\* no receipt is known to the node, and so none is returned
NullNodeReceipt == [isNull |-> TRUE, logs |-> << >>]
NullSendTxReceipt == [isNull |-> TRUE, logs |-> << >>, rawlogs |-> << >>]

\* before new Contract(rpc, info)
InitContract ==
    /\ abi = {}
    /\ kpc = "new"
    /\ op = NoOp
    /\ methodABI = NoMethod
    /\ outcome = "none"
    /\ requests = << >>
    /\ output = ""
    /\ decodedOutputs = 0
    /\ nodeReceipt = NullNodeReceipt
    /\ sendTxReceipt = NullSendTxReceipt

Init == InitChain /\ InitLog /\ InitConfirm /\ InitContract

chainVars == <<head, chainLogs, nextLogId>>
subVars == <<pc, impl, fromBlock, toBlock, canceled,
             latestBlockNum, isFirstFetch, fetchToLatest, promiseCancel,
             optFrom, optTo, delivered, firstRequest, pinnedHead>>

\* the logs of a new block: n logs with the given topics
NewLogs(topics, block) ==
    [i \in 1..Len(topics) |->
        [id |-> nextLogId + i - 1, block |-> block, topic |-> topics[i]]]

BlockTopics ==
    UNION {[1..n -> Topics] : n \in 0..MaxLogsPerBlock}

\* the node mines a block
MineBlock ==
    /\ head < MaxHead
    /\ \E topics \in BlockTopics :
        /\ nextLogId + Len(topics) - 1 <= MaxLogs
        /\ chainLogs' = chainLogs \o NewLogs(topics, head + 1)
        /\ nextLogId' = nextLogId + Len(topics)
    /\ head' = head + 1
    /\ UNCHANGED <<callVars, subVars, confirmVars>>

\* onLog(fn, opts): the variables are set up and loop() runs to its first
\* await, the getBlockNumber request. A toBlock of 0 is falsy and behaves as
\* an omitted one, so the supplied toBlock ranges over 1..MaxHead
OnLog ==
    /\ pc = "idle"
    /\ \E i \in {"Contract", "EventListener"},
          f \in {UNDEFINED} \cup (0..MaxHead), t \in {UNDEFINED} \cup (1..MaxHead) :
        /\ impl' = i
        /\ optFrom' = f
        /\ optTo' = t
        /\ fromBlock' = OrLatest(f)
        /\ toBlock' = OrLatest(t)
        /\ fetchToLatest' = FetchToLatest(OrLatest(f))
    /\ canceled' = FALSE
    /\ isFirstFetch' = TRUE
    /\ pc' = "awaitBlockNumber"
    /\ UNCHANGED <<callVars, confirmVars, chainVars, latestBlockNum, promiseCancel, delivered,
                   firstRequest, pinnedHead>>

\* getBlockNumber answers: lines 585-608, up to the sleep or the getLogs request
GetBlockNumberReturns ==
    /\ pc = "awaitBlockNumber"
    /\ latestBlockNum' = head
    /\ LET from == PinFromBlock(fromBlock, head)
           to == TrackToBlock(toBlock, head, fetchToLatest)
       IN /\ fromBlock' = from
          /\ toBlock' = to
          /\ pinnedHead' = IF pinnedHead = UNDEFINED THEN head ELSE pinnedHead
          /\ IF ShouldSleep(from, to, isFirstFetch)
             THEN /\ pc' = "sleeping"
                  /\ UNCHANGED <<isFirstFetch, promiseCancel, firstRequest>>
             ELSE /\ isFirstFetch' = FALSE
                  /\ pc' = "awaitLogs"
                  /\ promiseCancel' = (promiseCancel \/ impl = "EventListener")
                  /\ firstRequest' = isFirstFetch
    /\ UNCHANGED <<callVars, confirmVars, chainVars, impl, canceled, fetchToLatest,
                   optFrom, optTo, delivered>>

\* the sleep ends: the while condition is tested, then getBlockNumber is requested
SleepReturns ==
    /\ pc = "sleeping"
    /\ pc' = IF canceled THEN "ended" ELSE "awaitBlockNumber"
    /\ UNCHANGED <<callVars, confirmVars, chainVars, impl, fromBlock, toBlock,
                   canceled, latestBlockNum, isFirstFetch, fetchToLatest,
                   promiseCancel, optFrom, optTo, delivered, firstRequest,
                   pinnedHead>>

\* the calls of fn for the entries of one result; the consumer calls cancel
\* inside the call for entry k (k = 0: it does not)
Deliveries(result, k) ==
    [i \in 1..Len(result) |->
        [id |-> result[i].id, block |-> result[i].block,
         topic |-> result[i].topic, event |-> result[i].event,
         afterCancel |-> canceled \/ (k > 0 /\ i > k)]]

\* getLogs answers: lines 610-614, then the while condition
GetLogsReturns ==
    /\ pc = "awaitLogs"
    /\ LET result == GetLogs(fromBlock, toBlock)
       IN \E k \in 0..Len(result) :
            /\ delivered' = delivered \o Deliveries(result, k)
            /\ canceled' = (canceled \/ k > 0)
            /\ pc' = IF canceled \/ k > 0 THEN "ended" ELSE "awaitBlockNumber"
    /\ fromBlock' = NextFromBlock(latestBlockNum)
    /\ UNCHANGED <<callVars, confirmVars, chainVars, impl, toBlock, latestBlockNum,
                   isFirstFetch, fetchToLatest, promiseCancel, optFrom, optTo,
                   firstRequest, pinnedHead>>

\* the cancel function, called while the loop is suspended. In EventListener
\* promiseCancel() aborts the getLogs request in flight, whose await then
\* throws out of asyncLoop; Contract.onLog only sets the flag
Cancel ==
    /\ pc \in {"awaitBlockNumber", "sleeping", "awaitLogs"}
    /\ ~canceled
    /\ canceled' = TRUE
    /\ pc' = IF promiseCancel /\ pc = "awaitLogs" THEN "rejected" ELSE pc
    /\ UNCHANGED <<callVars, confirmVars, chainVars, impl, fromBlock, toBlock,
                   latestBlockNum, isFirstFetch, fetchToLatest, promiseCancel,
                   optFrom, optTo, delivered, firstRequest,
                   pinnedHead>>

\* a request of the loop fails: the await throws out of loop()
LogRpcError ==
    /\ pc \in {"awaitBlockNumber", "awaitLogs"}
    /\ pc' = "rejected"
    /\ UNCHANGED <<callVars, confirmVars, chainVars, impl, fromBlock, toBlock,
                   canceled, latestBlockNum, isFirstFetch, fetchToLatest,
                   promiseCancel, optFrom, optTo, delivered, firstRequest,
                   pinnedHead>>

NextLog ==
    \/ MineBlock
    \/ OnLog
    \/ GetBlockNumberReturns
    \/ SleepReturns
    \/ GetLogsReturns
    \/ Cancel
    \/ LogRpcError

SpecLog == Init /\ [][NextLog]_vars

\* the subscription loop with no cancellation and no failing request, under
\* the scheduling of the runtime: a pending answer or timer is always served,
\* and the chain keeps growing
NextLogLive ==
    \/ MineBlock
    \/ OnLog
    \/ GetBlockNumberReturns
    \/ SleepReturns
    \/ GetLogsReturns

SpecLogLive ==
    /\ Init
    /\ [][NextLogLive]_vars
    /\ WF_vars(MineBlock)
    /\ WF_vars(GetBlockNumberReturns)
    /\ WF_vars(SleepReturns)
    /\ WF_vars(GetLogsReturns)

(***************************************************************************)
(* The log subscription: claims                                            *)
(***************************************************************************)

\* how often the consumer was called with log id
TimesDelivered(id) == Cardinality({i \in DOMAIN delivered : delivered[i].id = id})

\* the raw logs of block b
LogsOfBlock(b) == SelectSeq(chainLogs, LAMBDA l : l.block = b)

\* C1: once cancel has been called the consumer is never invoked again,
\* whether cancel came while a request was in flight or from inside the
\* consumer during a batch.
CX_C1_NoDeliveryAfterCancel ==
    \A i \in DOMAIN delivered : ~delivered[i].afterCancel

\* C6: within one subscription no log entry is delivered to the consumer
\* more than once.
CX_C6_NoDuplicateDelivery ==
    \A i, j \in DOMAIN delivered :
        i < j => delivered[i].id # delivered[j].id

\* the first block of the subscription's range: the block its cursor starts at
StartBlock == IF IsNumber(OrLatest(optFrom)) THEN optFrom ELSE pinnedHead

\* block b lies in the subscription's range: from its start block up to the
\* head (toBlock omitted) or up to the supplied toBlock, that block included
InRange(b) ==
    /\ pinnedHead # UNDEFINED
    /\ StartBlock <= b
    /\ (IF optTo = UNDEFINED THEN b <= head ELSE b <= optTo)

\* C7: in an uncancelled subscription, with the head advancing (here: at
\* least two blocks past b), every log of every block b of the range is
\* eventually passed to the consumer.
CX_C7_NoGaps ==
    ([] ~canceled) =>
        \A b \in 1..MaxHead :
            [] ((InRange(b) /\ head >= b + 2 /\ LogsOfBlock(b) # << >>)
                    => <> (\A i \in DOMAIN LogsOfBlock(b) :
                              TimesDelivered(LogsOfBlock(b)[i].id) >= 1))

\* C8: subscribed without fromBlock at head H, one log then mined in block
\* H+1 has been delivered exactly once, decoded, when the poller has run an
\* iteration with the head at H+1 and gone back to sleep.
CX_C8_NextBlockLogDelivered ==
    (/\ optFrom = UNDEFINED
     /\ pinnedHead # UNDEFINED
     /\ ~canceled
     /\ pc = "sleeping"
     /\ latestBlockNum = pinnedHead + 1
     /\ Len(LogsOfBlock(pinnedHead + 1)) = 1
     /\ LogsOfBlock(pinnedHead + 1)[1].topic \in KnownEvents)
    => /\ TimesDelivered(LogsOfBlock(pinnedHead + 1)[1].id) = 1
       /\ \A i \in DOMAIN delivered :
            delivered[i].id = LogsOfBlock(pinnedHead + 1)[1].id
                => ~delivered[i].event.isNull

\* C9: entries reach the consumer in non-decreasing block order across all
\* fetches, and no entry is delivered for a block lower than one already
\* delivered.
CX_C9_BlockOrder ==
    \A i, j \in DOMAIN delivered :
        i < j => delivered[i].block <= delivered[j].block

\* C10: without a fromBlock the first iteration pins fromBlock to the head H
\* it reads and does not sleep, the first window requested is [H, H], the
\* logs of block H are delivered by the first fetch, and no entry of a block
\* below H is ever delivered.
T_C10_PinnedToHead ==
    (optFrom = UNDEFINED /\ pinnedHead # UNDEFINED) =>
        /\ fromBlock >= pinnedHead
        /\ (isFirstFetch => pc \notin {"sleeping", "awaitLogs"})
        /\ ((pc = "awaitLogs" /\ firstRequest)
                => fromBlock = pinnedHead /\ toBlock = pinnedHead)
        /\ (fromBlock > pinnedHead
                => \A i \in DOMAIN LogsOfBlock(pinnedHead) :
                      TimesDelivered(LogsOfBlock(pinnedHead)[i].id) >= 1)
        /\ \A i \in DOMAIN delivered : delivered[i].block >= pinnedHead

\* C10 witness: a subscription without fromBlock pinned at a head H >= 1 has
\* delivered a log of block H while an older log exists and stays undelivered.
W_C10_PinnedToHead ==
    /\ optFrom = UNDEFINED
    /\ pinnedHead # UNDEFINED
    /\ pinnedHead >= 1
    /\ fromBlock > pinnedHead
    /\ \E i \in DOMAIN delivered : delivered[i].block = pinnedHead
    /\ \E i \in DOMAIN chainLogs :
          chainLogs[i].block < pinnedHead /\ TimesDelivered(chainLogs[i].id) = 0

\* C11: with a concrete fromBlock F, 0 and heights above the head included,
\* the first window requested starts at F and no entry of a block below F is
\* ever delivered.
CX_C11_ReplayFromSuppliedBlock ==
    optFrom # UNDEFINED =>
        /\ ((pc = "awaitLogs" /\ firstRequest) => fromBlock = optFrom)
        /\ \A i \in DOMAIN delivered : delivered[i].block >= optFrom

\* C12: the upper bound of every window requested is the head read in that
\* iteration exactly when the caller gave no toBlock; with a concrete toBlock
\* T no window extends past T and no entry of a block above T is delivered.
CX_C12_ToBlockTracksHeadUnlessSupplied ==
    /\ pc = "awaitLogs" =>
          IF optTo = UNDEFINED
          THEN toBlock = latestBlockNum
          ELSE toBlock # LATEST /\ toBlock <= optTo
    /\ optTo # UNDEFINED =>
          \A i \in DOMAIN delivered : delivered[i].block <= optTo

\* the getLogs request in flight answers in this step
GetLogsAnswers == pc = "awaitLogs" /\ pc' \in {"awaitBlockNumber", "ended"}

\* C13: getLogs, and so onLog, gives exactly one entry per raw log of the
\* window, in the order of the raw logs, each with the fields of its raw log,
\* with a null event when the log does not decode and the decoded event
\* otherwise: no raw log is dropped and none aborts the batch.
T_C13_UndecodableLogKept ==
    [][GetLogsAnswers =>
        LET raw == RpcGetLogs(fromBlock, toBlock)
            n == Len(delivered)
        IN /\ Len(delivered') = n + Len(raw)
           /\ \A i \in 1..Len(raw) :
                /\ delivered'[n + i].id = raw[i].id
                /\ delivered'[n + i].block = raw[i].block
                /\ delivered'[n + i].topic = raw[i].topic
                /\ delivered'[n + i].event.isNull
                      = (raw[i].topic \notin KnownEvents)
                /\ (raw[i].topic \in KnownEvents
                      => delivered'[n + i].event._eventName = raw[i].topic)]_vars

\* C13 witness: a log that does not decode was delivered with a null event,
\* and the log after it in the same block with its decoded event.
W_C13_UndecodableLogKept ==
    \E i \in DOMAIN delivered :
        /\ i + 1 \in DOMAIN delivered
        /\ delivered[i].topic = "BazEvent"
        /\ delivered[i].event.isNull
        /\ delivered[i + 1].block = delivered[i].block
        /\ delivered[i + 1].id = delivered[i].id + 1
        /\ delivered[i + 1].topic = "FooEvent"
        /\ ~delivered[i + 1].event.isNull

\* C15: a request of the loop that fails does not end the subscription: a
\* subscription that was not cancelled is never ended.
CX_C15_RpcErrorKeepsSubscription ==
    ~canceled => pc \notin {"rejected", "ended"}

\* C17: getLogs does not resolve with an empty list: when it answers, the
\* window holds at least one log.
CX_C17_GetLogsWaitsForALog ==
    [][GetLogsAnswers => GetLogs(fromBlock, toBlock) # << >>]_vars

\* C25: when a fetch of the window [fromBlock, toBlock] has answered and its
\* entries are delivered, the cursor fromBlock is toBlock + 1 of that window
\* (the head, when the window was requested up to the tag "latest").
CX_C25_CursorAfterWindow ==
    [][GetLogsAnswers =>
        fromBlock' = (IF toBlock = LATEST THEN head ELSE toBlock) + 1]_vars

\* C26: once the cursor fromBlock of a subscription is a height, no step of
\* the subscription decreases it.
CX_C26_CursorNeverRewinds ==
    [][(pc # "idle" /\ IsNumber(fromBlock)) => fromBlock' >= fromBlock]_vars

\* C27: getLogs is requested only for a window that is not empty and not
\* consumed: its lower bound is not above its upper bound, and after the
\* first fetch the head read is above the head of the fetch before, which
\* is fromBlock - 1.
CX_C27_NoRequestForEmptyWindow ==
    pc = "awaitLogs" =>
        /\ fromBlock <= (IF toBlock = LATEST THEN latestBlockNum ELSE toBlock)
        /\ ~firstRequest => latestBlockNum >= fromBlock

\* C28: after cancel the loop starts no new getLogs request and no new
\* sleep.
CX_C28_NoSuspensionAfterCancel ==
    [][canceled => (pc' \in {"awaitLogs", "sleeping"} => pc' = pc)]_vars

\* logEmitter / emitter: the key the callback given to onLog emits under
LogEmitterKey(entry) ==
    IF ~entry.event.isNull /\ entry.event._eventName # ""
    THEN entry.event._eventName
    ELSE "?"

\* logEmitter / emitter: the events emitted, one by each call of the callback
Emitted ==
    [i \in DOMAIN delivered |->
        [key |-> LogEmitterKey(delivered[i]), id |-> delivered[i].id,
         afterCancel |-> delivered[i].afterCancel]]

\* C22: the emitter emits every entry the subscription delivers once, in the
\* order of the deliveries, under its decoded event name or under "?" when
\* it has none, and emits nothing after emitter.cancel().
CX_C22_EmitterFollowsDeliveries ==
    /\ Len(Emitted) = Len(delivered)
    /\ \A i \in DOMAIN Emitted :
          /\ Emitted[i].id = delivered[i].id
          /\ Emitted[i].key = IF delivered[i].topic \in KnownEvents
                              THEN delivered[i].topic
                              ELSE "?"
          /\ ~Emitted[i].afterCancel

(***************************************************************************)
(* TxReceiptPromise.confirm                                                *)
(***************************************************************************)

\* ---- bounds of the confirmation model
MaxConfirmHead == 5
MaxConfirm == 4
MaxPolls == 4
MaxReorgs == 1

\* the default of the parameter confirm
DefaultConfirm == 3

\* TRANSACTION_STATUS.FAILED
TRANSACTION_STATUS_FAILED == 0

\* the status values a receipt carries
Statuses == {"undefined", "0x0", "0x1"}

\* Number(receipt.status)
NumberOf(status) == IF status = "0x0" THEN 0 ELSE 1

\* confirm: number = 3
ConfirmTarget(arg) == IF arg = UNDEFINED THEN DefaultConfirm ELSE arg

\* mutant: any status at all is taken for a failure
HasTransactionError_AnyStatus(status) == status # "undefined"

\* lines 58-60
HasTransactionError(status) ==
    status # "undefined" /\ NumberOf(status) = TRANSACTION_STATUS_FAILED

\* lines 67-68
ConfirmationCounter(current, receiptBlockNumber) == current - receiptBlockNumber

\* line 69: a fresh receipt is ignored
IsFreshReceipt(counter, confirm) == counter = 0 /\ confirm > 0

\* mutant: one confirmation short is taken for enough
NeedsMoreConfirmations_OffByOne(counter, confirm) == counter + 1 < confirm

\* mutant: the target depth itself is not enough
NeedsMoreConfirmations_Inclusive(counter, confirm) == counter <= confirm

\* line 75
NeedsMoreConfirmations(counter, confirm) == counter < confirm

\* lines 77-80: how many times EVENT_CONFIRM is emitted
ConfirmationCount(counter, prev) == IF counter # prev THEN counter - prev ELSE 1

\* lines 78-81: prevConfirmationCounter after the poll
NextPrevConfirmationCounter(counter, prev) ==
    IF counter # prev THEN counter - prev ELSE prev

\* lines 83-85: the calls of the handler made by n emits
HandlerCalls(n, registered) == IF registered /\ n > 0 THEN n ELSE 0

\* mutant: the handlers stay registered when confirm resolves
ReleaseListeners_Kept(registered) == registered

\* line 92: removeAllListeners(EVENT_CONFIRM)
ReleaseListeners(registered) == FALSE

pollVars == <<receipt, currentBlockNumber, prevConfirmationCounter,
              confirmationCounter, seenCounter, fired, callbacks, polls,
              returned>>
txVars == <<txKnown, txBlock, txStatus, reorgs>>
logOnly == <<chainLogs, nextLogId, subVars>>

\* rpc.sendTransaction: the node takes the transaction
SendTransaction ==
    /\ ~txKnown
    /\ txKnown' = TRUE
    /\ UNCHANGED <<callVars, head, logOnly, txBlock, txStatus, reorgs, cpc, confirmArg,
                   listening, pollVars>>

\* the node mines a block, with the pending transaction in it or not
ChainGrows ==
    /\ head < MaxConfirmHead
    /\ head' = head + 1
    /\ \/ UNCHANGED <<txBlock, txStatus>>
       \/ /\ txKnown /\ txBlock = 0
          /\ txBlock' = head + 1
          /\ txStatus' \in Statuses
    /\ UNCHANGED <<callVars, logOnly, txKnown, reorgs, cpc, confirmArg, listening, pollVars>>

\* the node drops its head block; a transaction mined in it is pending again
ChainReorg ==
    /\ head > 0
    /\ reorgs < MaxReorgs
    /\ reorgs' = reorgs + 1
    /\ head' = head - 1
    /\ txBlock' = IF txBlock = head THEN 0 ELSE txBlock
    /\ UNCHANGED <<callVars, logOnly, txKnown, txStatus, cpc, confirmArg, listening, pollVars>>

\* confirm(confirm, opts), with or without a handler registered by onConfirm
\* before (Contract.confirm, lines 466-474): it runs to the getTransaction request
Confirm ==
    /\ cpc = "idle"
    /\ confirmArg' \in {UNDEFINED} \cup (0..MaxConfirm)
    /\ listening' \in BOOLEAN
    /\ cpc' = "awaitTransaction"
    /\ UNCHANGED <<callVars, head, logOnly, txVars, pollVars>>

\* getTransaction answers: lines 38-49, up to the getTransactionReceipt request
GetTransactionReturns ==
    /\ cpc = "awaitTransaction"
    /\ IF ~txKnown
       THEN cpc' = "notFound"
       ELSE cpc' = "awaitReceipt"
    /\ prevConfirmationCounter' = 0
    /\ UNCHANGED <<callVars, head, logOnly, txVars, confirmArg, listening, receipt,
                   currentBlockNumber, confirmationCounter, seenCounter, fired,
                   callbacks, polls, returned>>

\* getTransactionReceipt answers: line 49, then the getBlockNumber request
GetTransactionReceiptReturns ==
    /\ cpc = "awaitReceipt"
    /\ receipt' = IF txBlock = 0
                  THEN NullReceipt
                  ELSE [isNull |-> FALSE, blockNumber |-> txBlock, status |-> txStatus]
    /\ cpc' = "awaitHead"
    /\ UNCHANGED <<callVars, head, logOnly, txVars, confirmArg, listening,
                   currentBlockNumber, prevConfirmationCounter,
                   confirmationCounter, seenCounter, fired, callbacks, polls,
                   returned>>

\* getBlockNumber answers: lines 50-93, the rest of the poll
ConfirmBlockNumberReturns ==
    /\ cpc = "awaitHead"
    /\ currentBlockNumber' = head
    /\ LET counter == ConfirmationCounter(head, receipt.blockNumber)
           confirm == ConfirmTarget(confirmArg)
           count == ConfirmationCount(counter, prevConfirmationCounter)
       IN IF receipt.isNull
          THEN /\ cpc' = "sleeping"
               /\ fired' = 0
               /\ UNCHANGED <<listening, prevConfirmationCounter,
                              confirmationCounter, seenCounter, callbacks,
                              returned>>
          ELSE IF HasTransactionError(receipt.status)
          THEN /\ cpc' = "txError"
               /\ fired' = 0
               /\ UNCHANGED <<listening, prevConfirmationCounter,
                              confirmationCounter, seenCounter, callbacks,
                              returned>>
          ELSE /\ confirmationCounter' = counter
               /\ seenCounter' = confirmationCounter
               /\ IF IsFreshReceipt(counter, confirm)
                  THEN /\ cpc' = "sleeping"
                       /\ fired' = 0
                       /\ UNCHANGED <<listening, prevConfirmationCounter,
                                      callbacks, returned>>
                  ELSE IF NeedsMoreConfirmations(counter, confirm)
                  THEN /\ cpc' = "waiting"
                       /\ prevConfirmationCounter' =
                             NextPrevConfirmationCounter(counter, prevConfirmationCounter)
                       /\ fired' = HandlerCalls(count, listening)
                       /\ callbacks' = callbacks + HandlerCalls(count, listening)
                       /\ UNCHANGED <<listening, returned>>
                  ELSE /\ cpc' = "resolved"
                       /\ listening' = ReleaseListeners(listening)
                       /\ returned' = receipt
                       /\ fired' = 0
                       /\ UNCHANGED <<prevConfirmationCounter, callbacks>>
    /\ UNCHANGED <<callVars, head, logOnly, txVars, confirmArg, receipt, polls>>

\* sleep(pollInterval) ends: the next poll requests the receipt
ConfirmSleepEnds ==
    /\ cpc \in {"sleeping", "waiting"}
    /\ cpc' = "awaitReceipt"
    /\ UNCHANGED <<callVars, head, logOnly, txVars, confirmArg, listening,
                   receipt, currentBlockNumber, prevConfirmationCounter,
                   confirmationCounter, seenCounter, fired, callbacks, returned>>

\* the same, with the polls counted up to MaxPolls
ConfirmSleepReturns ==
    /\ polls + 1 < MaxPolls
    /\ polls' = polls + 1
    /\ ConfirmSleepEnds

\* the same, with the polls not counted
ConfirmPollsOn ==
    /\ ConfirmSleepEnds
    /\ UNCHANGED polls

\* a request of confirm fails: the await throws out of confirm
ConfirmRpcError ==
    /\ cpc \in {"awaitTransaction", "awaitReceipt", "awaitHead"}
    /\ cpc' = "rpcError"
    /\ UNCHANGED <<callVars, head, logOnly, txVars, confirmArg, listening, pollVars>>

\* onConfirm(fn) while a request of confirm is pending or after confirm has
\* resolved; a registration made during a sleep acts as one made during the
\* request that follows it
OnConfirm ==
    /\ cpc \in {"awaitTransaction", "awaitReceipt", "awaitHead", "resolved"}
    /\ ~listening
    /\ listening' = TRUE
    /\ UNCHANGED <<callVars, head, logOnly, txVars, cpc, confirmArg, pollVars>>

\* offConfirm(fn), at the same points
OffConfirm ==
    /\ cpc \in {"awaitTransaction", "awaitReceipt", "awaitHead", "resolved"}
    /\ listening
    /\ listening' = FALSE
    /\ UNCHANGED <<callVars, head, logOnly, txVars, cpc, confirmArg, pollVars>>

NextConfirm ==
    \/ SendTransaction
    \/ ChainGrows
    \/ ChainReorg
    \/ Confirm
    \/ GetTransactionReturns
    \/ GetTransactionReceiptReturns
    \/ ConfirmBlockNumberReturns
    \/ ConfirmSleepReturns
    \/ ConfirmRpcError
    \/ OnConfirm
    \/ OffConfirm

SpecConfirm == Init /\ [][NextConfirm]_vars

\* confirm without a handler, with no failing request and polls without
\* end, under the scheduling of the runtime: a pending answer or timer is
\* always served. The chain is left free
NextConfirmLive ==
    \/ SendTransaction
    \/ ChainGrows
    \/ ChainReorg
    \/ (Confirm /\ ~listening')
    \/ GetTransactionReturns
    \/ GetTransactionReceiptReturns
    \/ ConfirmBlockNumberReturns
    \/ ConfirmPollsOn

SpecConfirmLive ==
    /\ Init
    /\ [][NextConfirmLive]_vars
    /\ WF_vars(GetTransactionReturns)
    /\ WF_vars(GetTransactionReceiptReturns)
    /\ WF_vars(ConfirmBlockNumberReturns)
    /\ WF_vars(ConfirmPollsOn)

(***************************************************************************)
(* The confirmation poll: claims                                           *)
(***************************************************************************)

\* a poll has just completed: confirm sleeps, has resolved or has thrown
PollCompleted == cpc \in {"sleeping", "waiting", "resolved", "txError"}

\* C2: confirm(n) with n >= 1 resolves only in a poll whose observed head
\* is at least n blocks above the receipt's block, never in one whose head
\* equals the receipt's block.
T_C2_ResolvesAtDepth ==
    (cpc = "resolved" /\ ConfirmTarget(confirmArg) >= 1) =>
        /\ ~receipt.isNull
        /\ currentBlockNumber # receipt.blockNumber
        /\ currentBlockNumber - receipt.blockNumber >= ConfirmTarget(confirmArg)

\* C2 witness: confirm(2) has resolved after a poll that saw the receipt fresh.
W_C2_ResolvesAtDepth ==
    /\ cpc = "resolved"
    /\ confirmArg = 2
    /\ polls >= 1
    /\ seenCounter = 0
    /\ currentBlockNumber - receipt.blockNumber = 2

\* C3: confirm(0) resolves in the first poll that obtains a receipt that has
\* not failed, whatever head that poll reads.
CX_C3_ZeroResolvesAtOnce ==
    (PollCompleted /\ confirmArg = 0 /\ ~receipt.isNull /\ receipt.status # "0x0")
        => cpc = "resolved"

\* the larger of two numbers
Max(a, b) == IF a >= b THEN a ELSE b

\* C4: a poll that waits for depth calls the registered handler exactly d
\* times, d the increase of the confirmation count since the poll before
\* (none when it has not increased), so all the calls together never exceed
\* the latest count.
CX_C4_OneCallbackPerConfirmation ==
    (cpc = "waiting" /\ listening) =>
        /\ fired = Max(0, confirmationCounter - seenCounter)
        /\ callbacks <= Max(0, confirmationCounter)

\* C5: a poll that obtains a receipt with the failure status ends confirm
\* with the transaction error, for every target depth; confirm never resolves
\* or goes on polling with it, and no other status ends confirm that way.
T_C5_FailedReceiptThrows ==
    /\ (PollCompleted /\ ~receipt.isNull /\ receipt.status = "0x0")
            => cpc = "txError"
    /\ cpc = "txError" => (~receipt.isNull /\ receipt.status = "0x0")

\* C5 witness: confirm(0) has thrown on a failed receipt that was four
\* blocks deep.
W_C5_FailedReceiptThrows ==
    /\ cpc = "txError"
    /\ confirmArg = 0
    /\ receipt.status = "0x0"
    /\ currentBlockNumber - receipt.blockNumber = 4

\* C14: a lookup that finds nothing and a request that fails do not make
\* confirm fail: confirm never ends for a transaction that getTransaction
\* does not find, nor for a failed request.
CX_C14_LookupFailureKeepsPolling ==
    cpc \notin {"notFound", "rpcError"}

\* C18: confirm resolves with the receipt of its final poll and removes
\* every handler registered until then; once it has resolved it stays
\* resolved, its result does not change and no handler is called again,
\* whatever is registered afterwards.
T_C18_ResolveReleasesHandlers ==
    [][/\ (cpc # "resolved" /\ cpc' = "resolved")
            => /\ ~listening'
               /\ returned' = receipt
               /\ ~returned'.isNull
               /\ callbacks' = callbacks
       /\ cpc = "resolved"
            => /\ cpc' = "resolved"
               /\ returned' = returned
               /\ callbacks' = callbacks
               /\ fired' = 0]_vars

\* C18 witness: confirm has resolved with the receipt of its final poll after
\* the handler was called in an earlier poll, the handler is registered
\* no more, and the chain has grown since.
W_C18_ResolveReleasesHandlers ==
    /\ cpc = "resolved"
    /\ callbacks >= 1
    /\ ~listening
    /\ returned = receipt
    /\ ~returned.isNull
    /\ head > currentBlockNumber

\* the node knows the transaction, its receipt has no failure status, and
\* the head is at least the target depth above the block of the receipt
DepthReached ==
    /\ cpc # "idle"
    /\ txKnown
    /\ txBlock # 0
    /\ txStatus # "0x0"
    /\ head >= txBlock + ConfirmTarget(confirmArg)

\* C29: when from some point on the transaction's receipt stays available
\* without failure status and the head stays at or above its block plus the
\* target depth, a confirm that found the transaction and met no failed
\* receipt eventually resolves: it does not poll forever.
T_C29_ConfirmEventuallyResolves ==
    (<>[]DepthReached /\ [](cpc \notin {"notFound", "txError"}))
        => <>(cpc = "resolved")

\* C29 witness: confirm(2) has resolved with the head exactly two blocks
\* above the receipt, after a reorganization and a poll that saw depth 1.
W_C29_ConfirmEventuallyResolves ==
    /\ cpc = "resolved"
    /\ confirmArg = 2
    /\ reorgs = 1
    /\ seenCounter = 1
    /\ DepthReached
    /\ head = txBlock + 2
    /\ returned.blockNumber = txBlock

(***************************************************************************)
(* Contract: encodeParams, rawCall, call, rawSend, send                    *)
(***************************************************************************)

\* ---- bounds of the contract model: the longest argument list, and the
\* most logs in a receipt
MaxArgs == 3
MaxReceiptLogs == 2

Method(n, in, c) == [name |-> n, inputs |-> in, constant |-> c, outputs |-> 1]

\* the contract Methods of the tests
MethodsABI ==
    {Method("getFoo", << >>, TRUE), Method("setFoo", <<"uint256">>, FALSE)}

\* the contract MethodOverloading of the tests
FooOverloads ==
    {Method("foo", << >>, TRUE),
     Method("foo", <<"uint256">>, TRUE),
     Method("foo", <<"string">>, TRUE),
     Method("foo", <<"uint256", "uint256">>, TRUE),
     Method("foo", <<"int256", "int256">>, TRUE),
     Method("foo", <<"int256", "int256", "int256">>, TRUE)}

\* the ABIs a contract is built from: Methods with any set of overloads of foo
ABIs == {MethodsABI \cup s : s \in SUBSET FooOverloads}

\* the values passed as arguments: a number, a string of digits, another string
Values == {"number", "digits", "text"}

ArgLists == UNION {[1..n -> Values] : n \in 0..MaxArgs}

BareName(n) == [name |-> n, qualified |-> FALSE, types |-> << >>]

\* the text "name(type,...)" of a definition
Signature(d) == [name |-> d.name, qualified |-> TRUE, types |-> d.inputs]

\* the method names a caller passes: bare names, one of them of no method,
\* and full signatures, one of them of no method
MethodNames ==
    {BareName(n) : n \in {"getFoo", "setFoo", "foo", "unknownMethod"}}
        \cup {Signature(d) : d \in MethodsABI \cup FooOverloads}
        \cup {[name |-> "foo", qualified |-> TRUE, types |-> <<"bool">>]}

\* a value is representable as a type
Compatible(v, type) ==
    IF type \in {"uint256", "int256"} THEN v \in {"number", "digits"}
    ELSE IF type = "string" THEN v \in {"digits", "text"}
    ELSE FALSE

Fits(args, types) ==
    /\ Len(args) = Len(types)
    /\ \A i \in 1..Len(args) : Compatible(args[i], types[i])

Found(d) == [tag |-> "ok", def |-> d]
Failure(t) == [tag |-> t, def |-> NoDefinition]

\* mutant: a full signature resolves to some definition of its name
FindBySignature_AnyOfName(method) ==
    LET byName == {d \in abi : d.name = method.name}
    IN IF byName = {} THEN Failure("UnknownMethod")
       ELSE Found(CHOOSE d \in byName : TRUE)

\* the name holds parentheses: the definition with exactly that signature
FindBySignature(method) ==
    LET exact == {d \in abi : Signature(d) = method}
    IN IF exact = {} THEN Failure("UnknownMethod")
       ELSE Found(CHOOSE d \in exact : TRUE)

\* mutant: the only definition of a name is returned for any argument count
FindOnly_AnyArity(d, args) == Found(d)

\* one definition has the name: the argument count must be its own
FindOnly(d, args) ==
    IF Len(d.inputs) = Len(args) THEN Found(d) ELSE Failure("ArityMismatch")

\* mutant: when several candidates survive, one of them is picked
FindOverload_PickOne(byName, args) ==
    LET byArity == {d \in byName : Len(d.inputs) = Len(args)}
        byType == {d \in byArity : Fits(args, d.inputs)}
    IN IF byType # {} THEN Found(CHOOSE d \in byType : TRUE)
       ELSE IF byArity = {} THEN Failure("ArityMismatch")
       ELSE Failure("TypeMismatch")

\* several definitions have the name: filter by argument count, then by type
FindOverload(byName, args) ==
    LET byArity == {d \in byName : Len(d.inputs) = Len(args)}
        byType == {d \in byArity : Fits(args, d.inputs)}
    IN IF Cardinality(byType) = 1 THEN Found(CHOOSE d \in byType : TRUE)
       ELSE IF Cardinality(byType) > 1 THEN Failure("AmbiguousOverload")
       ELSE IF byArity = {} THEN Failure("ArityMismatch")
       ELSE Failure("TypeMismatch")

\* MethodMap.findMethod
FindMethod(method, args) ==
    IF method.qualified
    THEN FindBySignature(method)
    ELSE LET byName == {d \in abi : d.name = method.name}
         IN IF byName = {} THEN Failure("UnknownMethod")
            ELSE IF Cardinality(byName) = 1
            THEN FindOnly(CHOOSE d \in byName : TRUE, args)
            ELSE FindOverload(byName, args)

\* encodeInputs: the encoder throws on a wrong count and on a wrong type
EncodeInputs(method, args) ==
    IF Len(args) # Len(method.inputs) THEN "ArityMismatch"
    ELSE IF ~Fits(args, method.inputs) THEN "TypeMismatch"
    ELSE "ok"

\* decodeOutputs: one value per declared output
DecodeOutputs(method, outputData) == method.outputs

\* mutant: a constant method is sent to like any other
IsConstant_Never(method) == FALSE

\* methodABI.constant, tested by rawSend and send before they encode
IsConstant(method) == method.constant

\* encodeParams, lines 213-218: what it throws, or "ok"
EncodeParamsOutcome(found, args) ==
    IF found.tag # "ok" THEN found.tag ELSE EncodeInputs(found.def, args)

\* rawSend and send up to the request, lines 434-443 and 499-508
SendOutcome(found, args) ==
    IF found.tag # "ok" THEN found.tag
    ELSE IF IsConstant(found.def) THEN "ConstantMethod"
    ELSE EncodeInputs(found.def, args)

\* the logs a receipt of the node can hold
ReceiptLogs == UNION {[1..n -> Topics] : n \in 0..MaxReceiptLogs}

\* a receipt of the node with logs of the given topics
NodeReceipt(topics) ==
    [isNull |-> FALSE,
     logs |-> [i \in 1..Len(topics) |-> [id |-> i, topic |-> topics[i]]]]

\* mutant: the raw logs that do not decode are left out
MakeSendTxReceipt_DecodedOnly(r) ==
    LET rawlogs == SelectSeq(r.logs, LAMBDA l : ~Decode(l).isNull)
    IN [isNull |-> FALSE,
        logs |-> [i \in 1..Len(rawlogs) |-> Decode(rawlogs[i])],
        rawlogs |-> rawlogs]

\* _makeSendTxReceipt: logs are the decoded raw logs, rawlogs the raw ones
MakeSendTxReceipt(r) ==
    LET rawlogs == r.logs
    IN [isNull |-> FALSE,
        logs |-> [i \in 1..Len(rawlogs) |-> Decode(rawlogs[i])],
        rawlogs |-> rawlogs]

\* new Contract(rpc, info)
NewContract ==
    /\ kpc = "new"
    /\ abi' \in ABIs
    /\ kpc' = "ready"
    /\ UNCHANGED <<logVars, confirmVars, op, methodABI, outcome, requests,
                   output, decodedOutputs, nodeReceipt, sendTxReceipt>>

\* a method of Contract is called: the common frame of what it sets
Called(name, method, args) ==
    /\ op' = [name |-> name, method |-> method, args |-> args]
    /\ output' = ""
    /\ decodedOutputs' = 0
    /\ nodeReceipt' = NullNodeReceipt
    /\ sendTxReceipt' = NullSendTxReceipt
    /\ UNCHANGED <<logVars, confirmVars, abi>>

\* encodeParams(method, args)
EncodeParams ==
    /\ kpc = "ready"
    /\ \E method \in MethodNames, args \in ArgLists :
        /\ Called("encodeParams", method, args)
        /\ methodABI' = FindMethod(method, args)
        /\ outcome' = EncodeParamsOutcome(FindMethod(method, args), args)
        /\ requests' = << >>
        /\ kpc' = "done"

\* rawCall(method, args) and call(method, args), up to the rpc.call request
Call ==
    /\ kpc = "ready"
    /\ \E name \in {"rawCall", "call"}, method \in MethodNames, args \in ArgLists :
        /\ Called(name, method, args)
        /\ methodABI' = FindMethod(method, args)
        /\ LET thrown == EncodeParamsOutcome(FindMethod(method, args), args)
           IN IF thrown = "ok"
              THEN /\ outcome' = "pending"
                   /\ requests' = <<"call">>
                   /\ kpc' = "awaitCall"
              ELSE /\ outcome' = thrown
                   /\ requests' = << >>
                   /\ kpc' = "done"

\* rpc.call answers: rawCall returns the output, call decodes it unless empty
RpcCallReturns ==
    /\ kpc = "awaitCall"
    /\ output' \in {"", "0x"}
    /\ decodedOutputs' = IF op.name = "call" /\ output' # ""
                         THEN DecodeOutputs(methodABI.def, output')
                         ELSE 0
    /\ outcome' = "ok"
    /\ kpc' = "done"
    /\ UNCHANGED <<logVars, confirmVars, abi, op, methodABI, requests,
                   nodeReceipt, sendTxReceipt>>

\* rawSend(method, args) and send(method, args), up to rpc.sendTransaction
Send ==
    /\ kpc = "ready"
    /\ \E name \in {"rawSend", "send"}, method \in MethodNames, args \in ArgLists :
        /\ Called(name, method, args)
        /\ methodABI' = FindMethod(method, args)
        /\ LET thrown == SendOutcome(FindMethod(method, args), args)
           IN IF thrown = "ok"
              THEN /\ outcome' = "pending"
                   /\ requests' = <<"sendTransaction">>
                   /\ kpc' = "awaitSendTransaction"
              ELSE /\ outcome' = thrown
                   /\ requests' = << >>
                   /\ kpc' = "done"

\* rpc.sendTransaction answers: rawSend returns, send requests the transaction
SendTransactionReturns ==
    /\ kpc = "awaitSendTransaction"
    /\ IF op.name = "send"
       THEN /\ requests' = Append(requests, "getTransaction")
            /\ kpc' = "awaitGetTransaction"
            /\ UNCHANGED outcome
       ELSE /\ outcome' = "ok"
            /\ kpc' = "done"
            /\ UNCHANGED requests
    /\ UNCHANGED <<logVars, confirmVars, abi, op, methodABI, output,
                   decodedOutputs, nodeReceipt, sendTxReceipt>>

\* rpc.getTransaction answers: send returns the transaction with confirm
SendGetTransactionReturns ==
    /\ kpc = "awaitGetTransaction"
    /\ outcome' = "ok"
    /\ kpc' = "done"
    /\ UNCHANGED <<logVars, confirmVars, abi, op, methodABI, requests, output,
                   decodedOutputs, nodeReceipt, sendTxReceipt>>

\* receipt(txid) and confirm(txid, confirm, onConfirm), up to their await:
\* rpc.getTransactionReceipt, or confirm of a new TxReceiptPromise
Receipt ==
    /\ kpc = "ready"
    /\ \E name \in {"receipt", "confirm"} :
        /\ Called(name, NoOp.method, << >>)
        /\ requests' = IF name = "receipt"
                       THEN <<"getTransactionReceipt">>
                       ELSE <<"getTransaction">>
    /\ methodABI' = NoMethod
    /\ outcome' = "pending"
    /\ kpc' = "awaitTxReceipt"

\* the handler given to confirm is called with a receipt: lines 467-472
ConfirmProgress ==
    /\ kpc = "awaitTxReceipt"
    /\ op.name = "confirm"
    /\ \E topics \in ReceiptLogs :
        /\ nodeReceipt' = NodeReceipt(topics)
        /\ sendTxReceipt' = MakeSendTxReceipt(NodeReceipt(topics))
    /\ UNCHANGED <<logVars, confirmVars, abi, kpc, op, methodABI, outcome,
                   requests, output, decodedOutputs>>

\* the receipt arrives: receipt returns null when there is none, if not
\* both return what _makeSendTxReceipt makes of it
ReceiptReturns ==
    /\ kpc = "awaitTxReceipt"
    /\ \/ /\ op.name = "receipt"
          /\ nodeReceipt' = NullNodeReceipt
          /\ sendTxReceipt' = NullSendTxReceipt
       \/ \E topics \in ReceiptLogs :
          /\ nodeReceipt' = NodeReceipt(topics)
          /\ sendTxReceipt' = MakeSendTxReceipt(NodeReceipt(topics))
    /\ outcome' = "ok"
    /\ kpc' = "done"
    /\ UNCHANGED <<logVars, confirmVars, abi, op, methodABI, requests, output,
                   decodedOutputs>>

\* a request of the method fails: the await throws
ContractRpcError ==
    /\ kpc \in {"awaitCall", "awaitSendTransaction", "awaitGetTransaction",
               "awaitTxReceipt"}
    /\ outcome' = "RpcError"
    /\ kpc' = "done"
    /\ UNCHANGED <<logVars, confirmVars, abi, op, methodABI, requests, output,
                   decodedOutputs, nodeReceipt, sendTxReceipt>>

\* the caller has the result or the error: the call and its locals are gone
Settled ==
    /\ kpc = "done"
    /\ kpc' = "ready"
    /\ op' = NoOp
    /\ methodABI' = NoMethod
    /\ outcome' = "none"
    /\ requests' = << >>
    /\ output' = ""
    /\ decodedOutputs' = 0
    /\ nodeReceipt' = NullNodeReceipt
    /\ sendTxReceipt' = NullSendTxReceipt
    /\ UNCHANGED <<logVars, confirmVars, abi>>

NextContract ==
    \/ NewContract
    \/ EncodeParams
    \/ Call
    \/ RpcCallReturns
    \/ Send
    \/ SendTransactionReturns
    \/ SendGetTransactionReturns
    \/ Receipt
    \/ ConfirmProgress
    \/ ReceiptReturns
    \/ ContractRpcError
    \/ Settled

SpecContract == Init /\ [][NextContract]_vars

(***************************************************************************)
(* The contract methods: claims                                            *)
(***************************************************************************)

\* the errors a method throws before it requests anything
Thrown == {"UnknownMethod", "AmbiguousOverload", "ArityMismatch",
           "TypeMismatch", "ConstantMethod"}

\* C16: send and rawSend on a constant method fail with the constant-method
\* error and never request sendTransaction; encodeParams, rawCall, call,
\* rawSend and send with a method name that resolves to no definition fail
\* before any request is made.
T_C16_RejectedBeforeAnyRequest ==
    /\ (op.name \in {"send", "rawSend"} /\ methodABI.tag = "ok"
          /\ methodABI.def.constant)
            => outcome = "ConstantMethod" /\ requests = << >>
    /\ (op.name \in {"encodeParams", "rawCall", "call", "rawSend", "send"}
          /\ methodABI.tag # "ok")
            => outcome \in Thrown /\ requests = << >> /\ kpc = "done"

\* C16 witness: send("getFoo") was rejected as constant with no request made.
W_C16_RejectedBeforeAnyRequest ==
    /\ op.name = "send"
    /\ op.method = BareName("getFoo")
    /\ op.args = << >>
    /\ methodABI.tag = "ok"
    /\ outcome = "ConstantMethod"
    /\ requests = << >>

\* C19: a full signature resolves to the definition of the ABI with exactly
\* that signature, never to another overload, whatever the arguments are.
T_C19_SignatureResolvesExactly ==
    (op.name # "" /\ op.method.qualified) =>
        IF \E d \in abi : Signature(d) = op.method
        THEN /\ methodABI.tag = "ok"
             /\ methodABI.def \in abi
             /\ Signature(methodABI.def) = op.method
        ELSE methodABI.tag = "UnknownMethod"

\* C19 witness: "foo(int256,int256)" resolved to that overload while the ABI
\* also holds foo(uint256,uint256), with arguments that fit neither.
W_C19_SignatureResolvesExactly ==
    /\ op.method = [name |-> "foo", qualified |-> TRUE,
                    types |-> <<"int256", "int256">>]
    /\ op.args = <<"text">>
    /\ Method("foo", <<"uint256", "uint256">>, TRUE) \in abi
    /\ methodABI = Found(Method("foo", <<"int256", "int256">>, TRUE))

\* the definitions of the ABI with the name called
Named == {d \in abi : d.name = op.method.name}

\* C20: a bare name with exactly one definition resolves to it when the
\* argument count equals its parameter count, and the call then succeeds in
\* encoding when the values fit the types; with any other count it fails with
\* the arity error. No definition with another parameter count is returned.
T_C20_SingleDefinitionArity ==
    (op.name # "" /\ ~op.method.qualified /\ Cardinality(Named) = 1) =>
        LET d == CHOOSE x \in Named : TRUE
        IN /\ Len(op.args) = Len(d.inputs) => methodABI = Found(d)
           /\ (Fits(op.args, d.inputs) /\ ~(op.name \in {"send", "rawSend"} /\ d.constant))
                => outcome \notin Thrown
           /\ Len(op.args) # Len(d.inputs)
                => methodABI.tag = "ArityMismatch" /\ outcome = "ArityMismatch"
           /\ methodABI.tag = "ok" => Len(methodABI.def.inputs) = Len(op.args)

\* C20 witness: call("getFoo", [1]) failed with the arity error before any
\* request, on a contract that has overloads of another name.
W_C20_SingleDefinitionArity ==
    /\ op.name = "call"
    /\ op.method = BareName("getFoo")
    /\ op.args = <<"number">>
    /\ methodABI.tag = "ArityMismatch"
    /\ outcome = "ArityMismatch"
    /\ requests = << >>
    /\ Cardinality(abi) > 3

\* the definitions of the name called that take the arguments of the call
Surviving == {d \in Named : Fits(op.args, d.inputs)}

Foo(types) == Method("foo", types, TRUE)

\* C21: an overloaded bare name resolves to a definition only when exactly
\* one candidate survives the filters by argument count and by type, and
\* then to that one; with several survivors it fails as ambiguous, with none
\* it fails; foo resolves as the examples say when all six overloads exist.
T_C21_OverloadDisambiguation ==
    (op.name # "" /\ ~op.method.qualified /\ Cardinality(Named) > 1) =>
        /\ Cardinality(Surviving) = 1
              => methodABI = Found(CHOOSE d \in Surviving : TRUE)
        /\ Cardinality(Surviving) > 1
              => methodABI.tag = "AmbiguousOverload" /\ requests = << >>
        /\ Surviving = {}
              => methodABI.tag \in {"ArityMismatch", "TypeMismatch"}
        /\ FooOverloads \subseteq abi =>
              /\ op.args = << >> => methodABI = Found(Foo(<< >>))
              /\ op.args = <<"number">> => methodABI = Found(Foo(<<"uint256">>))
              /\ op.args = <<"text">> => methodABI = Found(Foo(<<"string">>))
              /\ op.args = <<"number", "number", "number">>
                    => methodABI = Found(Foo(<<"int256", "int256", "int256">>))
              /\ op.args = <<"number", "number">>
                    => methodABI.tag = "AmbiguousOverload"

\* C21 witness: call("foo", [1, 2]) on the contract with all six overloads
\* failed as ambiguous before any request.
W_C21_OverloadDisambiguation ==
    /\ op.name = "call"
    /\ op.method = BareName("foo")
    /\ op.args = <<"number", "number">>
    /\ FooOverloads \subseteq abi
    /\ Cardinality(Surviving) = 2
    /\ methodABI.tag = "AmbiguousOverload"
    /\ outcome = "AmbiguousOverload"
    /\ requests = << >>

\* C23: every receipt made for confirm, receipt or the progress handler holds
\* rawlogs, the logs of the node's receipt unchanged, and logs, of the same
\* length and order, logs[i] the decoding of rawlogs[i]; a raw log that does
\* not decode stays in rawlogs. Only receipt with no receipt found gives none.
T_C23_ReceiptLogsAndRawlogs ==
    /\ ~sendTxReceipt.isNull =>
          /\ ~nodeReceipt.isNull
          /\ sendTxReceipt.rawlogs = nodeReceipt.logs
          /\ Len(sendTxReceipt.logs) = Len(nodeReceipt.logs)
          /\ \A i \in DOMAIN nodeReceipt.logs :
                /\ sendTxReceipt.logs[i].isNull
                      = (nodeReceipt.logs[i].topic \notin KnownEvents)
                /\ nodeReceipt.logs[i].topic \in KnownEvents
                      => sendTxReceipt.logs[i]._eventName
                            = nodeReceipt.logs[i].topic
    /\ sendTxReceipt.isNull => nodeReceipt.isNull
    /\ (op.name = "confirm" /\ outcome = "ok") => ~sendTxReceipt.isNull

\* C23 witness: confirm returned a receipt whose first raw log does not
\* decode and whose second does.
W_C23_ReceiptLogsAndRawlogs ==
    /\ op.name = "confirm"
    /\ outcome = "ok"
    /\ Len(sendTxReceipt.rawlogs) = 2
    /\ sendTxReceipt.rawlogs[1].topic = "BazEvent"
    /\ sendTxReceipt.logs[1].isNull
    /\ sendTxReceipt.rawlogs[2].topic = "FooEvent"
    /\ ~sendTxReceipt.logs[2].isNull

\* C24: call of a method with N outputs returns exactly N values, whatever
\* payload the node answered, the empty one included.
CX_C24_CallReturnsDeclaredOutputs ==
    (op.name = "call" /\ outcome = "ok")
        => decodedOutputs = methodABI.def.outputs

====
